---- MODULE Spec2Model ----
(***************************************************************************)
(* The rob.numbox JSUI widget (the later script variant, with the decibel  *)
(* amplitude conversion) as a state machine.  Every handler of the script  *)
(* is an operator from a state record to a state record, so that a handler *)
(* that calls another one is the composition of the two; an action applies *)
(* one handler to the current state.                                       *)
(*                                                                         *)
(* Numbers are fixed-point integers with four decimals: the value 0.5 is   *)
(* 5000.  Binary floating-point rounding is not modelled.                  *)
(***************************************************************************)
EXTENDS Integers, Sequences, FiniteSets, TLC

\* ------------------------------------------------------------ numbers
Scale == 10 * 10 * 10 * 10

normalStepSize == Scale \div 2
fineStepSize == Scale \div 50

\* updateDisplay: the decibel style shows "-inf" at or below this value
dBFloor == (0 - 80) * Scale

\* ondrag: the tracked offset beyond which the cursor is re-centred
dragRecenterThreshold == 30

MathMax(a, b) == IF a >= b THEN a ELSE b

MathMin(a, b) == IF a <= b THEN a ELSE b

Abs(a) == IF a < 0 THEN 0 - a ELSE a

\* Math.round: to the nearest multiple of unit, halves towards +infinity
MathRound(v, unit) == (v + unit \div 2) \div unit

\* Number.prototype.toFixed: to the nearest multiple of unit, halves away from 0
ToFixed(v, unit) == IF v < 0 THEN 0 - ((0 - v + unit \div 2) \div unit)
                    ELSE (v + unit \div 2) \div unit

ClampLowerOnly(x, lo, hi) == MathMax(lo, x)

\* Math.max(minValue, Math.min(maxValue, x))
Clamp(x, lo, hi) == MathMax(lo, MathMin(hi, x))

\* ------------------------------------------------------------ output values
\* outputValue and displayText are never declared by the script: until
\* updateDisplay first assigns them, reading either one throws.
Undefined == [k |-> "undefined", v |-> 0]

Num(v) == [k |-> "number", v |-> v]

\* dbtoa: 10^(dB/20), kept as a term over the fixed-point decibel value
dbtoa(dB) == [k |-> "10^(dB/20)", v |-> dB]

NoText == [k |-> "undefined", n |-> 0, unit |-> 1, suffix |-> "", chars |-> <<>>]

\* a number printed with the decimals of unit, then a suffix
Text(n, unit, suffix) == [k |-> "number", n |-> n, unit |-> unit, suffix |-> suffix, chars |-> <<>>]

Literal(str) == [k |-> "literal", n |-> 0, unit |-> 1, suffix |-> str, chars |-> <<>>]

\* the raw edit buffer
Typed(chars) == [k |-> "typed", n |-> 0, unit |-> 1, suffix |-> "", chars |-> chars]

\* ------------------------------------------------------------ state
VARIABLES
    \* the script's globals (dragStartValue, which the script writes and never
    \* reads, is left out)
    currentValue, minValue, maxValue, initialValue, textJustification, activeState,
    outputValue, displayText,
    isDragging, dragStartY, lastDragY, cursorOrigin,
    isEditing, editText, hasFocus, showCursor, clickedInside,
    \* the host: the box's attribute store, the scheduled Tasks (cursorTimer and the
    \* anonymous ones), the system cursor, the messages embedded by save(), the
    \* width and height of the box
    attrs, tasks, cursorHidden, cursorPos, embedded, rect,
    \* what the last handler did: its name and arguments, the values it sent to
    \* outlet 0, the bangs it sent to outlet 1, its notifyclients() calls, whether
    \* it ended in an exception, the value it returned to its caller; and the
    \* number of value steps taken and of patcher loads so far
    lastOp, out0, out1, notified, threw, returned, moves, loads

vars == <<currentValue, minValue, maxValue, initialValue, textJustification, activeState,
          outputValue, displayText,
          isDragging, dragStartY, lastDragY, cursorOrigin,
          isEditing, editText, hasFocus, showCursor, clickedInside,
          attrs, tasks, cursorHidden, cursorPos, embedded, rect,
          lastOp, out0, out1, notified, threw, returned, moves, loads>>

\* the current state as one record
Cur == [currentValue |-> currentValue, minValue |-> minValue, maxValue |-> maxValue,
        initialValue |-> initialValue, textJustification |-> textJustification,
        activeState |-> activeState, outputValue |-> outputValue,
        displayText |-> displayText,
        isDragging |-> isDragging, dragStartY |-> dragStartY,
        lastDragY |-> lastDragY,
        cursorOrigin |-> cursorOrigin,
        isEditing |-> isEditing, editText |-> editText, hasFocus |-> hasFocus,
        showCursor |-> showCursor, clickedInside |-> clickedInside,
        attrs |-> attrs, tasks |-> tasks, cursorHidden |-> cursorHidden,
        cursorPos |-> cursorPos, embedded |-> embedded, rect |-> rect,
        lastOp |-> lastOp, out0 |-> out0, out1 |-> out1, notified |-> notified,
        threw |-> threw, returned |-> returned, moves |-> moves, loads |-> loads]

\* the next state is the record s
Becomes(s) ==
    /\ currentValue' = s.currentValue /\ minValue' = s.minValue
    /\ maxValue' = s.maxValue /\ initialValue' = s.initialValue
    /\ textJustification' = s.textJustification /\ activeState' = s.activeState
    /\ outputValue' = s.outputValue /\ displayText' = s.displayText
    /\ isDragging' = s.isDragging /\ dragStartY' = s.dragStartY
    /\ lastDragY' = s.lastDragY
    /\ cursorOrigin' = s.cursorOrigin
    /\ isEditing' = s.isEditing /\ editText' = s.editText /\ hasFocus' = s.hasFocus
    /\ showCursor' = s.showCursor /\ clickedInside' = s.clickedInside
    /\ attrs' = s.attrs /\ tasks' = s.tasks /\ cursorHidden' = s.cursorHidden
    /\ cursorPos' = s.cursorPos /\ embedded' = s.embedded /\ rect' = s.rect
    /\ lastOp' = s.lastOp /\ out0' = s.out0 /\ out1' = s.out1
    /\ notified' = s.notified /\ threw' = s.threw /\ returned' = s.returned
    /\ moves' = s.moves /\ loads' = s.loads

\* a handler named op starts on the current state
Enter(op, args) == [Cur EXCEPT !.lastOp = [op |-> op, args |-> args],
                               !.out0 = <<>>, !.out1 = 0, !.notified = 0,
                               !.threw = FALSE, !.returned = <<>>]

\* ------------------------------------------------------------ host calls
\* outlet(0, outputValue): reading the undeclared outputValue throws
outlet0(s) == IF s.outputValue = Undefined THEN [s EXCEPT !.threw = TRUE]
              ELSE [s EXCEPT !.out0 = Append(@, s.outputValue)]

\* a notification that, like the emission, is kept back while inactive
notifyclientsIfActive(s) == IF s.activeState # 0 THEN [s EXCEPT !.notified = @ + 1] ELSE s

notifyclients(s) == [s EXCEPT !.notified = @ + 1]

outputAlways(s) == outlet0(s)

\* "if (activeState) outlet(0, outputValue)"
outputIfActive(s) == IF s.activeState # 0 THEN outlet0(s) ELSE s

\* ------------------------------------------------------------ ValueModel
\* box.getattr("_parameter_unitstyle") || 0
getUnitStyle(s) == IF s.attrs.unitstyle = <<>> THEN 0 ELSE s.attrs.unitstyle[1]

Unit1 == Scale \div 10
Unit2 == Scale \div 100

\* the unit-style table for a value v: <<displayText, outputValue>>
\* the table of the earlier script variant: decibels pass through unconverted
FormatNoConversion(unitStyle, v) ==
    IF unitStyle = 4
    THEN IF v <= dBFloor THEN <<Literal("-inf"), Num(0)>>
         ELSE <<Text(ToFixed(v, Unit1), Unit1, " dB"), Num(v)>>
    ELSE <<Text(ToFixed(v, Unit1), Unit1, ""), Num(v)>>

Format(unitStyle, v) ==
    CASE unitStyle = 0 -> <<Text(MathRound(v, Scale), Scale, ""), Num(v)>>
      [] unitStyle = 1 -> <<Text(ToFixed(v, Unit2), Unit2, ""), Num(v)>>
      [] unitStyle = 2 -> <<Text(ToFixed(v, Unit1), Unit1, " ms"), Num(v)>>
      [] unitStyle = 3 -> <<Text(MathRound(v, Scale), Scale, " Hz"), Num(v)>>
      [] unitStyle = 4 -> IF v <= dBFloor
                          THEN <<Literal("-inf"), Num(0)>>
                          ELSE <<Text(ToFixed(v, Unit1), Unit1, " dB"), dbtoa(v)>>
      [] unitStyle = 5 -> <<Text(MathRound(v, Scale), Scale, " %"), Num(v)>>
      [] unitStyle = 6 -> <<Text(ToFixed(v, Unit2), Unit2, ""), Num(v)>>
      [] unitStyle = 7 -> <<Text(ToFixed(v, Unit1), Unit1, " st"), Num(v)>>
      [] unitStyle = 8 -> <<Text(MathRound(v, Scale), Scale, ""), Num(v)>>
      [] unitStyle = 9 -> <<Text(ToFixed(v, Unit2), Unit2, ""), Num(v)>>
      [] unitStyle = 10 -> <<Text(ToFixed(v, Unit2), Unit2, ""), Num(v)>>
      [] OTHER -> <<Text(ToFixed(v, Unit1), Unit1, ""), Num(v)>>

updateDisplay(s) ==
    IF s.isEditing
    THEN [s EXCEPT !.displayText = Typed(s.editText),
                   !.outputValue = Num(s.currentValue)]
    ELSE LET f == Format(getUnitStyle(s), s.currentValue)
         IN [s EXCEPT !.displayText = f[1], !.outputValue = f[2]]

updateRangeNoClamp(s) ==
    LET rangeAttr == s.attrs.range
    IN IF Len(rangeAttr) >= 2
       THEN [s EXCEPT !.minValue = rangeAttr[1], !.maxValue = rangeAttr[2]]
       ELSE s

\* a range refresh that takes a one-element range as a new lower bound
updateRangeShortAccepted(s) ==
    LET rangeAttr == s.attrs.range
    IN IF Len(rangeAttr) >= 1
       THEN LET s1 == [s EXCEPT !.minValue = rangeAttr[1],
                                !.maxValue = IF Len(rangeAttr) >= 2 THEN rangeAttr[2]
                                             ELSE @]
                newValue == Clamp(s1.currentValue, s1.minValue, s1.maxValue)
            IN IF newValue # s1.currentValue
               THEN outputIfActive(updateDisplay([s1 EXCEPT !.currentValue = newValue]))
               ELSE s1
       ELSE s

updateRange(s) ==
    LET rangeAttr == s.attrs.range
    IN IF Len(rangeAttr) >= 2
       THEN LET s1 == [s EXCEPT !.minValue = rangeAttr[1], !.maxValue = rangeAttr[2]]
                newValue == Clamp(s1.currentValue, s1.minValue, s1.maxValue)
            IN IF newValue # s1.currentValue
               THEN outputIfActive(updateDisplay([s1 EXCEPT !.currentValue = newValue]))
               ELSE s1
       ELSE s

updateInitialValue(s) ==
    IF s.attrs.initial_enable # 0
    THEN IF s.attrs.initial # <<>>
         THEN [s EXCEPT !.initialValue = s.attrs.initial[1]]
         ELSE s
    ELSE [s EXCEPT !.initialValue = 0]

\* update parameter type: only posts to the console
updateParameterType(s) == s

\* String.prototype.toLowerCase on the argument words the model uses
toLowerCase(word) ==
    CASE word = "LEFT" -> "left"
      [] word = "Right" -> "right"
      [] word = "Center" -> "center"
      [] word = "Centre" -> "centre"
      [] OTHER -> word

RECURSIVE foundJustifications(_)
foundJustifications(argsArray) ==
    IF argsArray = <<>> THEN <<>>
    ELSE LET arg == toLowerCase(Head(argsArray))
             rest == foundJustifications(Tail(argsArray))
         IN IF arg \in {"left", "centre", "center", "right"}
            THEN <<IF arg = "center" THEN "centre" ELSE arg>> \o rest
            ELSE rest

\* a parse that keeps the first justification found
parseJustificationFirstWins(s) ==
    LET found == foundJustifications(s.attrs.jsarguments)
    IN IF Len(found) >= 1 THEN [s EXCEPT !.textJustification = found[1]]
       ELSE [s EXCEPT !.textJustification = "centre"]

parseJustificationArgs(s) ==
    LET found == foundJustifications(s.attrs.jsarguments)
    IN IF Len(found) > 1 THEN [s EXCEPT !.textJustification = "centre"]
       ELSE IF Len(found) = 1 THEN [s EXCEPT !.textJustification = found[1]]
       ELSE [s EXCEPT !.textJustification = "centre"]

active(s, state) ==
    LET newState == IF state # 0 THEN 1 ELSE 0
        wasInactive == s.activeState = 0
        s1 == [s EXCEPT !.activeState = newState]
    IN IF wasInactive /\ s1.activeState = 1 THEN outlet0(s1) ELSE s1

handleAttributeChange(s, attrname) ==
    CASE attrname = "_parameter_type" -> updateParameterType(s)
      [] attrname = "_parameter_unitstyle" -> updateDisplay(s)
      [] attrname = "_parameter_range" -> updateRange(s)
      [] attrname \in {"_parameter_initial_enable", "_parameter_initial"} ->
             updateInitialValue(s)
      [] attrname = "jsarguments" -> parseJustificationArgs(s)
      [] OTHER -> s

\* a set-value handler that, like ondrag, acts only on a changed value
msg_floatChangeOnly(s, x) ==
    LET s1 == updateInitialValue(updateRange(s))
        newValue == Clamp(x, s1.minValue, s1.maxValue)
    IN IF newValue # s1.currentValue
       THEN outputIfActive(notifyclients(updateDisplay(
                [s1 EXCEPT !.currentValue = newValue])))
       ELSE s1

msg_float(s, x) ==
    LET s1 == updateInitialValue(updateRange(s))
        s2 == [s1 EXCEPT !.currentValue = Clamp(x, s1.minValue, s1.maxValue)]
    IN outputIfActive(notifyclients(updateDisplay(s2)))

\* a getvalueof that returns the converted output
getvalueofOutput(s) == s.outputValue

getvalueof(s) == Num(s.currentValue)

setvalueof(s, value) ==
    LET s1 == updateRange(s)
        s2 == [s1 EXCEPT !.currentValue = Clamp(value, s1.minValue, s1.maxValue)]
    IN outputIfActive(updateDisplay(s2))

loadbang(s) == notifyclients(updateDisplay(parseJustificationArgs(s)))

\* ------------------------------------------------------------ Tasks
\* a Task scheduled to run its function after delay milliseconds
Task(kind, delay, args) == [kind |-> kind, delay |-> delay, args |-> args]

schedule(s, kind, delay, args) == [s EXCEPT !.tasks = Append(@, Task(kind, delay, args))]

\* Task.cancel: the task named kind is no longer scheduled
cancel(s, kind) ==
    [s EXCEPT !.tasks = SelectSeq(@, LAMBDA t : t.kind # kind)]

\* cursorTimer is one Task object: scheduling it again replaces its pending run
cursorTimerSchedule(s, delay) == schedule(cancel(s, "toggleCursor"), "toggleCursor", delay, <<>>)

\* ------------------------------------------------------------ EditSession
IsDigit(c) == c >= 48 /\ c <= 57

RECURSIVE DigitRun(_, _)
DigitRun(chars, i) ==
    IF i <= Len(chars) /\ IsDigit(chars[i])
    THEN <<chars[i] - 48>> \o DigitRun(chars, i + 1)
    ELSE <<>>

RECURSIVE DigitsValue(_)
DigitsValue(ds) ==
    IF ds = <<>> THEN 0
    ELSE DigitsValue(SubSeq(ds, 1, Len(ds) - 1)) * 10 + ds[Len(ds)]

RECURSIVE Pow10(_)
Pow10(n) == IF n = 0 THEN 1 ELSE 10 * Pow10(n - 1)

\* parseFloat on a string of digits, '.' and '-': the longest numeric prefix,
\* <<>> for NaN
parseFloat(chars) ==
    LET neg == Len(chars) >= 1 /\ chars[1] = 45
        i0 == IF neg THEN 2 ELSE 1
        ip == DigitRun(chars, i0)
        j == i0 + Len(ip)
        hasDot == j <= Len(chars) /\ chars[j] = 46
        fp == IF hasDot THEN DigitRun(chars, j + 1) ELSE <<>>
        mag == DigitsValue(ip) * Scale + (DigitsValue(fp) * Scale) \div Pow10(Len(fp))
    IN IF Len(ip) + Len(fp) = 0 THEN <<>>
       ELSE <<IF neg THEN 0 - mag ELSE mag>>

\* a commit that takes a buffer that is not a number as 0
commitEditNaNAsZero(s) ==
    IF s.isEditing
    THEN LET s1 == cancel(s, "toggleCursor")
             parsed == parseFloat(s1.editText)
             newValue == IF parsed # <<>> THEN parsed[1] ELSE 0
             s2 == outputIfActive(notifyclients(updateDisplay(
                       [s1 EXCEPT !.currentValue =
                           Clamp(newValue, s1.minValue, s1.maxValue)])))
         IN updateDisplay([s2 EXCEPT !.isEditing = FALSE])
    ELSE s

commitEdit(s) ==
    IF s.isEditing
    THEN LET s1 == cancel(s, "toggleCursor")
             newValue == parseFloat(s1.editText)
             s2 == IF newValue # <<>>
                   THEN outputIfActive(notifyclients(updateDisplay(
                            [s1 EXCEPT !.currentValue =
                                Clamp(newValue[1], s1.minValue, s1.maxValue)])))
                   ELSE s1
         IN updateDisplay([s2 EXCEPT !.isEditing = FALSE])
    ELSE s

\* an Escape that closes the session the way Enter does
cancelEditCommits(s) == commitEdit(s)

cancelEdit(s) ==
    IF s.isEditing
    THEN updateDisplay([cancel(s, "toggleCursor") EXCEPT !.isEditing = FALSE,
                                                        !.editText = <<>>])
    ELSE s

\* a blink that toggles the cursor and does not schedule the next blink
toggleCursorOnce(s) ==
    IF s.isEditing THEN [s EXCEPT !.showCursor = ~@] ELSE s

toggleCursor(s) ==
    IF s.isEditing
    THEN cursorTimerSchedule([s EXCEPT !.showCursor = ~@], 500)
    ELSE s

\* the arrow keys of keyInput
arrowKey(s, charCode) ==
    LET s1 == IF s.isEditing THEN commitEdit(s) ELSE s
        step == IF charCode = 30 THEN normalStepSize ELSE 0 - normalStepSize
        s2 == updateRange(s1)
        newValue == Clamp(s2.currentValue + step, s2.minValue, s2.maxValue)
    IN IF newValue # s2.currentValue
       THEN outputIfActive(notifyclients(updateDisplay(
                [s2 EXCEPT !.currentValue = newValue])))
       ELSE s2

isValidChar(charCode) ==
    \/ (charCode >= 48 /\ charCode <= 57)
    \/ charCode \in {46, 45, 127, 13, 3, 27}

\* number keys, decimal point and minus sign
typeChar(s, charCode) ==
    IF (charCode >= 48 /\ charCode <= 57) \/ charCode = 46 \/ charCode = 45
    THEN IF ~s.isEditing
         THEN updateDisplay(cursorTimerSchedule(
                  [s EXCEPT !.isEditing = TRUE, !.editText = <<charCode>>,
                            !.showCursor = TRUE], 500))
         ELSE updateDisplay([s EXCEPT !.editText = Append(@, charCode)])
    ELSE s

\* special keys when in edit mode
specialKey(s, charCode) ==
    IF s.isEditing
    THEN IF charCode = 127
         THEN IF Len(s.editText) > 0
              THEN updateDisplay([s EXCEPT !.editText = SubSeq(@, 1, Len(@) - 1)])
              ELSE s
         ELSE IF charCode = 13 \/ charCode = 3 THEN commitEdit(s)
         ELSE IF charCode = 27 THEN cancelEdit(s)
         ELSE s
    ELSE s

\* a keyInput that takes every other key for a typed character
keyInputUnfiltered(s, c) ==
    IF ~s.hasFocus THEN s
    ELSE IF c = 30 \/ c = 31 THEN arrowKey(s, c)
    ELSE IF c \in {127, 13, 3, 27} THEN specialKey(s, c)
    ELSE IF ~s.isEditing
         THEN updateDisplay(cursorTimerSchedule(
                  [s EXCEPT !.isEditing = TRUE, !.editText = <<c>>,
                            !.showCursor = TRUE], 500))
         ELSE updateDisplay([s EXCEPT !.editText = Append(@, c)])

\* a keyInput that handles keys without focus as well
keyInputUnfocused(s, c) ==
    IF c = 30 \/ c = 31 THEN arrowKey(s, c)
    ELSE IF ~isValidChar(c) THEN s
    ELSE specialKey(typeChar(s, c), c)

keyInput(s, c) ==
    IF ~s.hasFocus THEN s
    ELSE IF c = 30 \/ c = 31 THEN arrowKey(s, c)
    ELSE IF ~isValidChar(c) THEN s
    ELSE specialKey(typeChar(s, c), c)

\* ------------------------------------------------------------ DragSession, focus
\* an onclick that takes the focus and starts the drag without polling the pointer
onclickNoPoll(s, y) ==
    updateInitialValue(updateRange(
        [s EXCEPT !.clickedInside = TRUE, !.hasFocus = TRUE,
                  !.isDragging = TRUE, !.dragStartY = y, !.lastDragY = y]))

onclick(s, y) ==
    LET s1 == [s EXCEPT !.clickedInside = TRUE, !.hasFocus = TRUE,
                        !.isDragging = TRUE, !.dragStartY = y, !.lastDragY = y]
        s2 == updateInitialValue(updateRange(s1))
    IN [s2 EXCEPT !.out1 = @ + 1]

ondblclick(s) ==
    LET s1 == updateInitialValue(s)
        s2 == [s1 EXCEPT !.currentValue = s1.initialValue]
    IN outputIfActive(notifyclients(updateDisplay(s2)))

\* max.pupdate(cursorOrigin[0], cursorOrigin[1])
pupdate(s) == [s EXCEPT !.cursorPos = s.cursorOrigin]

deltaYNotInverted(lastY, y) == y - lastY

\* "var deltaY = lastDragY - y": upward motion is a positive delta
deltaYOf(lastY, y) == lastY - y

\* "var stepSize = shift ? fineStepSize : normalStepSize"
stepSizeOf(shift) == IF shift # 0 THEN fineStepSize ELSE normalStepSize

\* a drag that takes the value step in the re-centring event as well
ondragAlwaysSteps(s, y, button, shift) ==
    IF s.isDragging
    THEN LET s1 == [s EXCEPT !.cursorHidden = TRUE]
             newValue == Clamp(s1.currentValue
                                   + deltaYOf(s1.lastDragY, y) * stepSizeOf(shift),
                               s1.minValue, s1.maxValue)
             s2 == IF newValue # s1.currentValue
                   THEN outputIfActive(notifyclients(updateDisplay(
                            [s1 EXCEPT !.currentValue = newValue])))
                   ELSE s1
             s3 == [s2 EXCEPT !.lastDragY = y]
         IN IF Abs(s1.lastDragY) > dragRecenterThreshold
            THEN pupdate(s3)
            ELSE IF button = 0
                 THEN [pupdate(s3) EXCEPT !.cursorHidden = FALSE,
                                          !.isDragging = FALSE]
                 ELSE s3
    ELSE s

\* a drag that, like msg_float, emits and notifies on every event
ondragAlwaysEmits(s, y, button, shift) ==
    IF s.isDragging
    THEN LET s1 == [s EXCEPT !.cursorHidden = TRUE]
         IN IF Abs(s1.lastDragY) > dragRecenterThreshold
            THEN [pupdate(s1) EXCEPT !.lastDragY = y]
            ELSE LET newValue == Clamp(s1.currentValue
                                           + deltaYOf(s1.lastDragY, y) * stepSizeOf(shift),
                                       s1.minValue, s1.maxValue)
                     s2 == outputIfActive(notifyclients(updateDisplay(
                               [s1 EXCEPT !.currentValue = newValue])))
                     s3 == [s2 EXCEPT !.lastDragY = y]
                 IN IF button = 0
                    THEN [pupdate(s3) EXCEPT !.cursorHidden = FALSE,
                                             !.isDragging = FALSE]
                    ELSE s3
    ELSE s

ondrag(s, y, button, shift) ==
    IF s.isDragging
    THEN LET s1 == [s EXCEPT !.cursorHidden = TRUE]
         IN IF Abs(s1.lastDragY) > dragRecenterThreshold
            THEN [pupdate(s1) EXCEPT !.lastDragY = y]
            ELSE LET deltaY == deltaYOf(s1.lastDragY, y)
                     stepSize == stepSizeOf(shift)
                     newValue == Clamp(s1.currentValue + deltaY * stepSize,
                                       s1.minValue, s1.maxValue)
                     s2 == IF newValue # s1.currentValue
                           THEN outputIfActive(notifyclients(updateDisplay(
                                    [s1 EXCEPT !.currentValue = newValue])))
                           ELSE s1
                     s3 == [s2 EXCEPT !.lastDragY = y]
                 IN IF button = 0
                    THEN [pupdate(s3) EXCEPT !.cursorHidden = FALSE,
                                             !.isDragging = FALSE]
                    ELSE s3
    ELSE s

globalMouse(s, leftClick, globalX, globalY) ==
    LET s1 == [s EXCEPT !.cursorOrigin = <<globalX, globalY>>]
    IN IF leftClick # 0 /\ s1.hasFocus
       THEN schedule(s1, "focusCheck", 1, <<>>)
       ELSE s1

\* a focus check that does not look at clickedInside
focusCheckUnconditional(s) ==
    LET s2 == [s EXCEPT !.hasFocus = FALSE]
        s1 == IF s2.isEditing THEN commitEdit(s2) ELSE s2
    IN [s1 EXCEPT !.clickedInside = FALSE]

\* a focus check that drops focus and leaves the edit session open
focusCheckNoCommit(s) ==
    LET s1 == IF ~s.clickedInside THEN [s EXCEPT !.hasFocus = FALSE] ELSE s
    IN [s1 EXCEPT !.clickedInside = FALSE]

\* the function of the Task that globalMouse schedules
focusCheck(s) ==
    LET s1 == IF ~s.clickedInside
              THEN LET s2 == [s EXCEPT !.hasFocus = FALSE]
                   IN IF s2.isEditing THEN commitEdit(s2) ELSE s2
              ELSE s
    IN [s1 EXCEPT !.clickedInside = FALSE]

onidleoutIgnored(s) == s

\* an idle-out that gives up focus as well
onidleoutDropsFocus(s) ==
    [s EXCEPT !.isDragging = FALSE, !.cursorHidden = FALSE, !.hasFocus = FALSE]

\* an idle-out that ends the drag and leaves the cursor hidden
onidleoutCursorHidden(s) ==
    IF s.isDragging THEN [s EXCEPT !.isDragging = FALSE] ELSE s

onidleout(s) ==
    IF s.isDragging
    THEN [s EXCEPT !.isDragging = FALSE, !.cursorHidden = FALSE]
    ELSE s

\* ------------------------------------------------------------ sizing
\* "var fixedHeight = 15", "var minWidth = 25"
fixedHeight == 15
minWidth == 25

\* onresize computes the corrected size and, its setattr commented out
\* ("bypass this for now"), does not write it
onresize(s, width, height) ==
    LET h == IF height # fixedHeight THEN fixedHeight ELSE height
        w == IF width < minWidth THEN minWidth ELSE width
        needsResize == height # fixedHeight \/ width < minWidth
    IN IF needsResize THEN s ELSE s

\* ------------------------------------------------------------ persistence
NothingEmbedded ==
    [saved |-> FALSE, value |-> 0, min |-> 0, max |-> 0, initial |-> 0,
     justification |-> "", active |-> 0, ptype |-> <<>>, initial_enable |-> 0,
     initialAttr |-> <<>>, unitstyle |-> <<>>, invisible |-> 0, range |-> <<>>]

\* save(): the embedmessage calls, as the record of their arguments
save(s) ==
    [s EXCEPT !.embedded =
        [saved |-> TRUE, value |-> s.currentValue, min |-> s.minValue,
         max |-> s.maxValue, initial |-> s.initialValue,
         justification |-> s.textJustification, active |-> s.activeState,
         ptype |-> s.attrs.ptype, initial_enable |-> s.attrs.initial_enable,
         initialAttr |-> s.attrs.initial, unitstyle |-> s.attrs.unitstyle,
         invisible |-> s.attrs.invisible,
         range |-> IF Len(s.attrs.range) >= 2
                   THEN <<s.attrs.range[1], s.attrs.range[2]>> ELSE <<>>]]

\* a restore that leaves the widget active
restoreInternalStateActive(s, value, min, max, initial, justification, activeArg) ==
    updateDisplay([s EXCEPT !.currentValue = value, !.minValue = min,
                            !.maxValue = max, !.initialValue = initial,
                            !.textJustification = justification])

restoreInternalState(s, value, min, max, initial, justification, activeArg) ==
    updateDisplay([s EXCEPT !.currentValue = value, !.minValue = min,
                            !.maxValue = max, !.initialValue = initial,
                            !.textJustification = justification,
                            !.activeState = activeArg])

\* the restore handlers of the attributes: each schedules a Task of its own,
\* which holds the value to write
restoreParameterType(s, type) == schedule(s, "restoreParameterType", 10, type)

restoreInitialEnable(s, enable) == schedule(s, "restoreInitialEnable", 20, <<enable>>)

restoreInitialValue(s, value) == schedule(s, "restoreInitialValue", 30, value)

restoreParameterRangeLate(s, min, max) ==
    schedule(s, "restoreParameterRange", 55, <<min, max>>)

restoreParameterRange(s, min, max) ==
    schedule(s, "restoreParameterRange", 40, <<min, max>>)

\* a unit-style restore that schedules no write
restoreUnitStyleDropped(s, style) == s

restoreUnitStyle(s, style) == schedule(s, "restoreUnitStyle", 50, style)

restoreParameterInvisible(s, invisible) ==
    schedule(s, "restoreParameterInvisible", 60, <<invisible>>)

RestoreKinds ==
    {"restoreParameterType", "restoreInitialEnable", "restoreInitialValue",
     "restoreParameterRange", "restoreUnitStyle", "restoreParameterInvisible"}

\* the functions of those Tasks: box.setattr writes the store, and the
\* attribute's MaxobjListener, where there is one, is notified
restoreWrite(s, t) ==
    CASE t.kind = "restoreParameterType" ->
             handleAttributeChange([s EXCEPT !.attrs.ptype = t.args], "_parameter_type")
      [] t.kind = "restoreInitialEnable" ->
             handleAttributeChange([s EXCEPT !.attrs.initial_enable = t.args[1]],
                                   "_parameter_initial_enable")
      [] t.kind = "restoreInitialValue" ->
             IF t.args # <<>>
             THEN handleAttributeChange([s EXCEPT !.attrs.initial = t.args],
                                        "_parameter_initial")
             ELSE s
      [] t.kind = "restoreParameterRange" ->
             handleAttributeChange([s EXCEPT !.attrs.range = t.args], "_parameter_range")
      [] t.kind = "restoreUnitStyle" ->
             handleAttributeChange([s EXCEPT !.attrs.unitstyle = t.args],
                                   "_parameter_unitstyle")
      [] t.kind = "restoreParameterInvisible" ->
             [s EXCEPT !.attrs.invisible = t.args[1]]

\* the patcher is opened again: a new instance of the script runs its top level
\* against the store a; the system cursor and the embedded messages are the host's
Reloaded(s, a) ==
    parseJustificationArgs(
        [s EXCEPT !.currentValue = (0 - 10) * Scale, !.minValue = (0 - 100) * Scale,
                  !.maxValue = 100 * Scale, !.initialValue = 0,
                  !.textJustification = "centre", !.activeState = 1,
                  !.outputValue = Undefined, !.displayText = NoText,
                  !.isDragging = FALSE, !.dragStartY = 0, !.lastDragY = 0,
                  !.cursorOrigin = <<0, 0>>, !.isEditing = FALSE, !.editText = <<>>,
                  !.hasFocus = FALSE, !.showCursor = TRUE, !.clickedInside = FALSE,
                  !.attrs = a, !.tasks = <<>>])

\* the embedded messages are replayed, in the order save() embedded them
replay(s) ==
    LET e == s.embedded
        s1 == restoreInternalState(s, e.value, e.min, e.max, e.initial,
                                   e.justification, e.active)
        s2 == restoreParameterType(s1, e.ptype)
        s3 == restoreInitialEnable(s2, e.initial_enable)
        s4 == restoreInitialValue(s3, e.initialAttr)
        s5 == restoreUnitStyle(s4, e.unitstyle)
        s6 == restoreParameterInvisible(s5, e.invisible)
    IN IF e.range # <<>> THEN restoreParameterRange(s6, e.range[1], e.range[2]) ELSE s6

\* ------------------------------------------------------------ inputs
\* the longest edit buffer typed, the value steps (drag moves and arrow keys
\* that change the value) taken in one run, the Tasks pending at once
MaxLen == 2
MaxMoves == 1
MaxTasks == 1

V(n) == n * Scale

\* arguments of msg_float and setvalueof
Floats == {V(0 - 80), V(0), V(50)}

\* values of _parameter_range: unset, too short, well-formed, inverted
Ranges == {<<>>, <<V(5)>>, <<V(0), V(10)>>, <<V(5), V(10)>>, <<V(10), V(0)>>}

Initials == {<<>>, <<V(50)>>}

\* values of _parameter_unitstyle: int and decibel
UnitStyles == {<<0>>, <<4>>}

Stores ==
    [range : Ranges, initial_enable : {0, 1}, initial : Initials,
     unitstyle : UnitStyles, ptype : {<<0>>}, invisible : {0}, jsarguments : {<<>>}]

\* the state after the script's top level has run against the store a
Constructed(a) ==
    /\ currentValue = V(0 - 10) /\ minValue = V(0 - 100) /\ maxValue = V(100)
    /\ initialValue = 0 /\ activeState = 1
    /\ textJustification =
           parseJustificationArgs([attrs |-> a, textJustification |-> "centre"]).textJustification
    /\ outputValue = Undefined /\ displayText = NoText
    /\ isDragging = FALSE /\ dragStartY = 0 /\ lastDragY = 0
    /\ cursorOrigin = <<0, 0>>
    /\ isEditing = FALSE /\ editText = <<>> /\ hasFocus = FALSE
    /\ showCursor = TRUE /\ clickedInside = FALSE
    /\ attrs = a /\ tasks = <<>> /\ cursorHidden = FALSE /\ cursorPos = <<>>
    /\ rect = <<50, fixedHeight>>
    /\ embedded = NothingEmbedded
    /\ lastOp = [op |-> "new", args |-> <<>>] /\ out0 = <<>> /\ out1 = 0
    /\ notified = 0 /\ threw = FALSE /\ returned = <<>> /\ moves = 0 /\ loads = 0

Init == \E a \in Stores : Constructed(a)

\* ------------------------------------------------------------ actions
\* drag moves and arrow keys that change the value are counted
Counted(s) == IF s.currentValue # currentValue THEN [s EXCEPT !.moves = @ + 1] ELSE s

WithinMoves(s) == s.moves <= MaxMoves

MsgFloat(xs) == \E x \in xs \cup {currentValue} :
    Becomes(msg_float(Enter("msg_float", <<x>>), x))

SetValueOf(xs) == \E x \in xs \cup {currentValue} :
    Becomes(setvalueof(Enter("setvalueof", <<x>>), x))

GetValueOf ==
    LET s == Enter("getvalueof", <<>>)
    IN Becomes([s EXCEPT !.returned = <<getvalueof(s)>>])

Active == \E state \in {0, 1} :
    Becomes(active(Enter("active", <<state>>), state))

Loadbang == Becomes(loadbang(Enter("loadbang", <<>>)))

DblClick == Becomes(ondblclick(Enter("ondblclick", <<>>)))

\* the inspector changes an attribute; its MaxobjListener calls the handler
Changed(a, attrname) ==
    /\ a # attrs
    /\ Becomes(handleAttributeChange([Enter(attrname, <<>>) EXCEPT !.attrs = a], attrname))

SetRange(rs) == \E r \in rs : Changed([attrs EXCEPT !.range = r], "_parameter_range")

SetInitialEnable == \E e \in {0, 1} :
    Changed([attrs EXCEPT !.initial_enable = e], "_parameter_initial_enable")

SetInitial(is) == \E i \in is :
    Changed([attrs EXCEPT !.initial = i], "_parameter_initial")

SetUnitStyle(us) == \E u \in us :
    Changed([attrs EXCEPT !.unitstyle = u], "_parameter_unitstyle")

Save == Becomes(save(Enter("save", <<>>)))

\* the restoreInternalState message that save() embedded is sent to the widget
RestoreInternalState ==
    /\ embedded.saved
    /\ Becomes(restoreInternalState(Enter("restoreInternalState", <<>>),
                   embedded.value, embedded.min, embedded.max, embedded.initial,
                   embedded.justification, embedded.active))

OnClick(ys) == \E y \in ys : Becomes(onclick(Enter("onclick", <<y>>), y))

OnDrag(ys, shifts) == \E y \in ys, button \in {0, 1}, shift \in shifts :
    LET s == Counted(ondrag(Enter("ondrag", <<y, button, shift>>), y, button, shift))
    IN WithinMoves(s) /\ Becomes(s)

OnIdleOut == Becomes(onidleout(Enter("onidleout", <<>>)))

GlobalMouse(ps) == \E leftClick \in {0, 1}, p \in ps :
    LET s == globalMouse(Enter("globalMouse", <<leftClick, p[1], p[2]>>),
                         leftClick, p[1], p[2])
    IN Len(SelectSeq(s.tasks, LAMBDA t : t.kind = "focusCheck")) <= MaxTasks
       /\ Becomes(s)

KeyInput(cs) == \E c \in cs :
    LET s == Counted(keyInput(Enter("keyInput", <<c>>), c))
    IN WithinMoves(s) /\ Len(s.editText) <= MaxLen /\ Becomes(s)

\* the function of a scheduled Task
taskFunction(s, t) ==
    CASE t.kind = "focusCheck" -> focusCheck(s)
      [] t.kind = "toggleCursor" -> toggleCursor(s)
      [] t.kind \in RestoreKinds -> restoreWrite(s, t)
      [] OTHER -> s

\* the Tasks of one replay are scheduled in the same instant
SameInstant(t, u) == t.kind \in RestoreKinds /\ u.kind \in RestoreKinds

\* a pending Task runs: one scheduled no later and with no longer a delay runs
\* first, and so does one scheduled in the same instant with a shorter delay
RunTask == \E i \in 1..Len(tasks) :
    /\ \A j \in 1..(i - 1) : tasks[j].delay > tasks[i].delay
    /\ \A j \in (i + 1)..Len(tasks) :
           SameInstant(tasks[j], tasks[i]) => tasks[j].delay >= tasks[i].delay
    /\ LET t == tasks[i]
           rest == [j \in 1..(Len(tasks) - 1) |->
                       IF j < i THEN tasks[j] ELSE tasks[j + 1]]
       IN Becomes(taskFunction([Enter(t.kind, t.args) EXCEPT !.tasks = rest], t))

\* ------------------------------------------------------------ specifications
\* the value model: set-value requests, activation, reset and the inspector
Next ==
    \/ MsgFloat(Floats) \/ SetValueOf(Floats) \/ GetValueOf \/ Active \/ Loadbang \/ DblClick
    \/ SetRange(Ranges) \/ SetInitialEnable \/ SetInitial(Initials)
    \/ SetUnitStyle(UnitStyles)

Spec == Init /\ [][Next]_vars

\* pointer positions (widget-local y), inside and beyond the re-centre threshold
Ys == {0, 10, 40}

\* '4', '2', '.', '-', Backspace, Enter, keypad Enter, Escape, 'a'
EditKeys == {52, 50, 46, 45, 127, 13, 3, 27, 97}

\* the drag session, with the global mouse poll and the focus check
DragStores ==
    [range : {<<>>, <<V(0), V(10)>>}, initial_enable : {0}, initial : {<<>>},
     unitstyle : {<<0>>}, ptype : {<<0>>}, invisible : {0}, jsarguments : {<<>>}]

InitDrag == \E a \in DragStores : Constructed(a)

NextDrag ==
    \/ OnClick(Ys) \/ OnDrag(Ys, {0, 1}) \/ OnIdleOut \/ GlobalMouse({<<7, 7>>})
    \/ RunTask \/ Active

SpecDrag == InitDrag /\ [][NextDrag]_vars

\* the edit session, with the blinking cursor
EditStores ==
    [range : {<<V(0), V(100)>>}, initial_enable : {0}, initial : {<<>>},
     unitstyle : UnitStyles, ptype : {<<0>>}, invisible : {0}, jsarguments : {<<>>}]

InitEdit == \E a \in EditStores : Constructed(a)

\* toggleCursor is a global function: besides cursorTimer, a toggleCursor
\* message from the patcher calls it, in any state
ToggleCursor == Becomes(toggleCursor(Enter("toggleCursor", <<>>)))

NextEdit ==
    \/ OnClick({0}) \/ KeyInput(EditKeys) \/ RunTask \/ Active \/ ToggleCursor

SpecEdit == InitEdit /\ [][NextEdit]_vars

\* every operation that changes the value, on a decibel widget
AllStores ==
    [range : {<<V(0), V(100)>>}, initial_enable : {1}, initial : {<<V(50)>>},
     unitstyle : {<<4>>}, ptype : {<<0>>}, invisible : {0}, jsarguments : {<<>>}]

InitAll == \E a \in AllStores : Constructed(a)

NextAll ==
    \/ MsgFloat({V(50)}) \/ SetValueOf({V(50)}) \/ Active \/ DblClick
    \/ SetRange({<<V(0), V(10)>>, <<V(0), V(100)>>})
    \/ OnClick({10}) \/ OnDrag({0}, {0}) \/ KeyInput({52, 13, 30})
    \/ GlobalMouse({<<0, 0>>}) \/ RunTask

SpecAll == InitAll /\ [][NextAll]_vars

\* the box is resized to width x height and the script is told
OnResize(sizes) == \E size \in sizes :
    Becomes(onresize([Enter("onresize", size) EXCEPT !.rect = size], size[1], size[2]))

Sizes == {<<20, 15>>, <<25, 15>>, <<60, 15>>, <<20, 30>>, <<60, 30>>, <<60, 10>>}

ResizeStores ==
    [range : {<<>>, <<V(0), V(10)>>}, initial_enable : {0}, initial : {<<>>},
     unitstyle : {<<0>>}, ptype : {<<0>>}, invisible : {0}, jsarguments : {<<>>}]

InitResize == \E a \in ResizeStores : Constructed(a)

NextResize == OnResize(Sizes) \/ MsgFloat({V(0), V(50)}) \/ Active

SpecResize == InitResize /\ [][NextResize]_vars

\* save and load.  The host may have kept the attributes or lost them
DefaultStore ==
    [range |-> <<>>, initial_enable |-> 0, initial |-> <<>>, unitstyle |-> <<0>>,
     ptype |-> <<0>>, invisible |-> 0, jsarguments |-> <<>>]

Load == \E a \in {attrs, DefaultStore} :
    /\ embedded.saved
    /\ Becomes(replay(Reloaded(Enter("load", <<>>), a)))

LoadStores ==
    [range : {<<>>, <<V(0), V(10)>>}, initial_enable : {1}, initial : {<<V(50)>>},
     unitstyle : {<<4>>}, ptype : {<<0>>}, invisible : {1},
     jsarguments : {<<"left">>}]

InitLoad == \E a \in LoadStores : Constructed(a)

NextLoad ==
    \/ MsgFloat({V(50)}) \/ Active \/ Save \/ Load \/ RunTask

SpecLoad == InitLoad /\ [][NextLoad]_vars

\* the restore writes run to their end: the scheduler fires every pending Task,
\* the patcher is loaded at most MaxLoads times and is not saved while restore
\* writes are pending
MaxLoads == 1

RestorePending(ts) == \E i \in 1..Len(ts) : ts[i].kind \in RestoreKinds

LoadBounded == \E a \in {attrs, DefaultStore} :
    /\ embedded.saved /\ loads < MaxLoads
    /\ Becomes([replay(Reloaded(Enter("load", <<>>), a)) EXCEPT !.loads = @ + 1])

SaveSettled == ~RestorePending(tasks) /\ Save

NextRestore ==
    \/ MsgFloat({V(50)}) \/ Active \/ SaveSettled \/ LoadBounded \/ RunTask

SpecRestore == InitLoad /\ [][NextRestore]_vars /\ WF_vars(RunTask)

\* the jsarguments: up to MaxArgs words, justifications in several spellings and
\* cases and a word that is none
MaxArgs == 3

ArgWords == {"left", "LEFT", "Right", "Center", "bold"}

ArgLists == UNION {[1..n -> ArgWords] : n \in 0..MaxArgs}

ArgStores ==
    [range : {<<>>}, initial_enable : {0}, initial : {<<>>},
     unitstyle : {<<0>>}, ptype : {<<0>>}, invisible : {0}, jsarguments : ArgLists]

SetJsArguments(as) == \E a \in as : Changed([attrs EXCEPT !.jsarguments = a], "jsarguments")

InitArgs == \E a \in ArgStores : Constructed(a)

NextArgs == SetJsArguments(ArgLists) \/ Loadbang

SpecArgs == InitArgs /\ [][NextArgs]_vars

\* physical clicks.  A left-click inside the widget delivers onclick and
\* globalMouse, in either order, before the check that globalMouse schedules
\* (1 ms) runs; a left-click elsewhere delivers globalMouse alone.  Clicks are
\* further apart than the check's delay: none arrives while a check is pending.
\* The check's Task carries the click it was scheduled for.
OutsideClick == <<1>>
InsideClick == <<2>>

NoCheckPending == \A i \in 1..Len(tasks) : tasks[i].kind # "focusCheck"

Attributed(s, click) ==
    IF Len(s.tasks) > Len(tasks)
    THEN [s EXCEPT !.tasks[Len(s.tasks)].args = click]
    ELSE s

ClickInside(ys, ps) == \E y \in ys, p \in ps, globalFirst \in {0, 1} :
    LET s0 == Enter("clickInside", <<globalFirst, y>>)
        s1 == IF globalFirst = 1
              THEN onclick(globalMouse(s0, 1, p[1], p[2]), y)
              ELSE globalMouse(onclick(s0, y), 1, p[1], p[2])
    IN NoCheckPending /\ Becomes(Attributed(s1, InsideClick))

ClickOutside(ps) == \E p \in ps :
    LET s == globalMouse(Enter("clickOutside", <<1, p[1], p[2]>>), 1, p[1], p[2])
    IN NoCheckPending /\ Becomes(Attributed(s, OutsideClick))

FocusStores ==
    [range : {<<V(0), V(100)>>}, initial_enable : {0}, initial : {<<>>},
     unitstyle : {<<0>>}, ptype : {<<0>>}, invisible : {0}, jsarguments : {<<>>}]

InitFocus == \E a \in FocusStores : Constructed(a)

\* '4', Enter, Escape
NextFocus ==
    \/ ClickInside({0}, {<<7, 7>>}) \/ ClickOutside({<<7, 7>>})
    \/ KeyInput({52, 13, 27}) \/ RunTask \/ Active \/ OnIdleOut
    \/ OnDrag({10}, {0})

SpecFocus == InitFocus /\ [][NextFocus]_vars

\* drags around the re-centre threshold: pointer positions at it, one beyond it
\* and one beyond it above the widget
RecenterYs == {0 - 31, 0, 30, 31}

NextRecenter ==
    \/ OnClick(RecenterYs) \/ OnDrag(RecenterYs, {0}) \/ GlobalMouse({<<7, 7>>})
    \/ RunTask

SpecRecenter == InitDrag /\ [][NextRecenter]_vars

\* the drag's cursor origin: pointer-downs on the widget, reported at either of
\* two screen positions, and the global mouse events that mousestate delivers
\* afterwards (the button going up, a poll), at either position
Positions == {<<7, 7>>, <<9, 9>>}

NextOrigin ==
    \/ ClickInside({0}, Positions) \/ GlobalMouse(Positions) \/ OnDrag({0, 40}, {0})
    \/ OnIdleOut \/ RunTask

SpecOrigin == InitFocus /\ [][NextOrigin]_vars

\* keys of every kind ('4', '.', Backspace, Enter, Escape, the arrows, 'a') on a
\* widget that gains and loses focus
AllKeys == {52, 46, 127, 13, 27, 30, 31, 97}

NextKeys ==
    \/ ClickInside({0}, {<<7, 7>>}) \/ ClickOutside({<<7, 7>>})
    \/ KeyInput(AllKeys) \/ RunTask \/ Active

SpecKeys == InitFocus /\ [][NextKeys]_vars

\* focus under every kind of operation: clicks, the key '0', drag events at the
\* clicked position, idle-out, set-value, reset, activation, a range change,
\* save and the replay of its message
NextFocusAll ==
    \/ ClickInside({0}, {<<7, 7>>}) \/ ClickOutside({<<7, 7>>})
    \/ KeyInput({48}) \/ RunTask \/ Active \/ OnIdleOut \/ OnDrag({0}, {0})
    \/ MsgFloat({V(0)}) \/ DblClick \/ SetRange({<<V(0), V(10)>>})
    \/ Save \/ RestoreInternalState

SpecFocusAll == InitFocus /\ [][NextFocusAll]_vars

\* ------------------------------------------------------------ claims
\* clamp(x, lo, hi), the way the claims use it: x cut to hi from above, then to
\* lo from below
ClampedTo(x, lo, hi) ==
    LET m == IF x < hi THEN x ELSE hi
    IN IF m > lo THEN m ELSE lo

SetValueRan == lastOp.op \in {"msg_float", "setvalueof"}

\* C1: a set-value request (msg_float(x), setvalueof(x)) leaves currentValue equal
\* to clamp(x, minValue, maxValue), with minValue and maxValue the bounds that the
\* attribute store holds at the time of the request (the cached ones when the
\* store holds no range).
C1_SetValueClamps ==
    SetValueRan =>
        /\ currentValue = ClampedTo(lastOp.args[1], minValue, maxValue)
        /\ Len(attrs.range) >= 2 =>
               minValue = attrs.range[1] /\ maxValue = attrs.range[2]

\* C1 witness: a set-value request above the store's range has been clamped to it
C1_Witness ==
    /\ SetValueRan /\ Len(attrs.range) >= 2 /\ attrs.range[1] < attrs.range[2]
    /\ lastOp.args[1] > attrs.range[2] /\ currentValue = attrs.range[2]

\* C2: in every reachable state with well-ordered bounds,
\* minValue <= currentValue <= maxValue.
C2_ValueWithinRange ==
    minValue <= maxValue => minValue <= currentValue /\ currentValue <= maxValue

\* the output the claims derive from a value under a unit style
DerivedOutput(unitStyle, v) ==
    IF unitStyle = 4
    THEN IF v <= (0 - 80) * Scale THEN Num(0) ELSE [k |-> "10^(dB/20)", v |-> v]
    ELSE Num(v)

StoreUnitStyle == IF attrs.unitstyle = <<>> THEN 0 ELSE attrs.unitstyle[1]

\* C3: a handler that starts or ends with the widget inactive sends nothing to
\* outlet 0 (the activating active(1) message apart), whatever it does to
\* currentValue.
C3_NoEmissionWhileInactive ==
    [][((activeState = 0 /\ lastOp'.op # "active") \/ activeState' = 0)
           => out0' = <<>>]_vars

\* C3 witness: an inactive widget has committed a typed value, notified its
\* listeners and changed currentValue without emitting
C3_Witness ==
    /\ activeState = 0 /\ lastOp = [op |-> "keyInput", args |-> <<13>>]
    /\ notified = 1 /\ out0 = <<>> /\ currentValue = V(4)

\* C4: active(state) emits the current output exactly once when, and only when,
\* the widget goes from inactive to active, and never changes currentValue.
C4_ActiveEmitsOnActivation ==
    [][lastOp'.op = "active" =>
           /\ currentValue' = currentValue
           /\ out0' = IF activeState = 0 /\ lastOp'.args[1] # 0
                      THEN <<DerivedOutput(StoreUnitStyle, currentValue)>>
                      ELSE <<>>]_vars

SameValueRequested ==
    /\ lastOp'.op \in {"msg_float", "setvalueof"}
    /\ lastOp'.args[1] = currentValue

WithinBoundsInForce(v) ==
    IF Len(attrs.range) >= 2
    THEN attrs.range[1] <= v /\ v <= attrs.range[2]
    ELSE minValue <= v /\ v <= maxValue

C6_DecibelOutput ==
    (~isEditing /\ outputValue # Undefined) =>
        IF StoreUnitStyle = 4
        THEN IF currentValue <= (0 - 80) * Scale
             THEN displayText = Literal("-inf") /\ outputValue = Num(0)
             ELSE /\ outputValue = [k |-> "10^(dB/20)", v |-> currentValue]
                  /\ outputValue # Num(currentValue)
        ELSE outputValue = Num(currentValue)

\* C6 witness: a decibel widget at -80 shows "-inf" and outputs 0
C6_Witness ==
    /\ StoreUnitStyle = 4 /\ currentValue = V(0 - 80)
    /\ displayText = Literal("-inf") /\ outputValue = Num(0)

\* C7: a notified change of the range attribute to a well-formed range makes
\* minValue/maxValue the new bounds and currentValue its clamp to them; it emits
\* once if that changed currentValue and the widget is active, nothing otherwise.
C7_RangeChangeReclamps ==
    [][(lastOp'.op = "_parameter_range" /\ Len(attrs'.range) >= 2) =>
           /\ minValue' = attrs'.range[1] /\ maxValue' = attrs'.range[2]
           /\ currentValue' = ClampedTo(currentValue, minValue', maxValue')
           /\ out0' = IF currentValue' # currentValue /\ activeState # 0
                      THEN <<outputValue'>> ELSE <<>>]_vars

\* C7 witness: the range was narrowed to [0, 10] under a value of 50, which
\* became 10 and was emitted once
C7_Witness ==
    /\ lastOp.op = "_parameter_range" /\ attrs.range = <<V(0), V(10)>>
    /\ currentValue = V(10) /\ out0 = <<DerivedOutput(StoreUnitStyle, V(10))>>

DragMoved == lastOp'.op = "ondrag" /\ isDragging

\* the step of a drag move: 0.02 with shift held, 0.5 without
DragStepOf(args) == IF args[3] # 0 THEN (2 * Scale) \div 100 ELSE (5 * Scale) \div 10

DraggedValue ==
    ClampedTo(currentValue + (lastDragY - lastOp'.args[1]) * DragStepOf(lastOp'.args),
              minValue, maxValue)

C9_EnterCommitsAndEmits ==
    [][(/\ lastOp'.op = "keyInput" /\ lastOp'.args[1] \in {13, 3}
        /\ hasFocus /\ isEditing /\ parseFloat(editText) # <<>>) =>
           /\ currentValue' = ClampedTo(parseFloat(editText)[1], minValue, maxValue)
           /\ ~isEditing'
           /\ out0' = IF activeState # 0
                      THEN <<DerivedOutput(StoreUnitStyle, currentValue')>>
                      ELSE <<>>]_vars

\* the key codes keyInput knows: digits, '.', '-', Backspace, Enter, keypad
\* Enter, Escape, the arrows
KnownKey(c) == (c >= 48 /\ c <= 57) \/ c \in {46, 45, 127, 13, 3, 27, 30, 31}

\* C10: keyInput with any other code leaves the widget as it was: no edit
\* session starts, the buffer, the value and the timers stay, nothing is emitted
\* or notified.
C10_UnknownKeyIgnored ==
    [][(lastOp'.op = "keyInput" /\ ~KnownKey(lastOp'.args[1])) =>
           /\ UNCHANGED <<currentValue, minValue, maxValue, initialValue,
                          outputValue, displayText, isEditing, editText, hasFocus,
                          showCursor, isDragging, tasks, activeState>>
           /\ out0' = <<>> /\ notified' = 0]_vars

\* C10 witness: 'a' arrived at a focused widget with an edit session open
C10_Witness ==
    /\ lastOp = [op |-> "keyInput", args |-> <<97>>] /\ hasFocus /\ isEditing
    /\ editText = <<52>>

\* C11: onclick, in any state, sets hasFocus and clickedInside, starts a drag
\* session at the pointer's y (isDragging, dragStartY = lastDragY = y) and sends
\* exactly one bang to outlet 1.
C11_ClickFocusesAndPolls ==
    [][lastOp'.op = "onclick" =>
           /\ hasFocus' /\ clickedInside' /\ isDragging'
           /\ dragStartY' = lastOp'.args[1] /\ lastDragY' = lastOp'.args[1]
           /\ out1' = 1]_vars

\* C11 witness: a click at y = 40 on a widget whose earlier drag had been
\* released (the pointer was put back) has started a new drag and polled once
C11_Witness ==
    /\ lastOp = [op |-> "onclick", args |-> <<40>>] /\ cursorPos # <<>>
    /\ hasFocus /\ clickedInside /\ isDragging /\ lastDragY = 40 /\ out1 = 1

\* C14: onidleout ends a drag session in progress and shows the cursor again;
\* in every state it leaves hasFocus, the edit session, currentValue and
\* outputValue as they were and emits nothing.
C14_IdleOutEndsDragOnly ==
    [][lastOp'.op = "onidleout" =>
           /\ isDragging => (~isDragging' /\ ~cursorHidden')
           /\ ~isDragging => UNCHANGED <<isDragging, cursorHidden>>
           /\ UNCHANGED <<hasFocus, isEditing, editText, currentValue, outputValue>>
           /\ out0' = <<>> /\ notified' = 0]_vars

\* C14 witness: the pointer left a focused widget with "4" typed, whose drag had
\* moved to y = 10 and was never released (the pointer was never put back): the
\* drag is over, the cursor shows, the focus and the edit session stay
C14_Witness ==
    /\ lastOp.op = "onidleout" /\ hasFocus /\ ~isDragging /\ ~cursorHidden
    /\ cursorPos = <<>> /\ lastDragY = 10 /\ isEditing /\ editText = <<52>>

\* C15: an ondrag delivered during a drag with the button released ends the
\* drag: isDragging is false, the cursor is back at cursorOrigin and shown.
C15_ReleaseEndsDrag ==
    [][(lastOp'.op = "ondrag" /\ isDragging /\ lastOp'.args[2] = 0) =>
           /\ ~isDragging' /\ ~cursorHidden' /\ cursorPos' = cursorOrigin]_vars

\* C12: when the check scheduled for a left-click outside a focused widget has
\* run, hasFocus is false and no edit session is open; a session that was open
\* has been committed: its parseable buffer clamped into currentValue and
\* emitted once if the widget is active.
C12_OutsideClickDropsFocus ==
    [][(lastOp'.op = "focusCheck" /\ lastOp'.args = OutsideClick) =>
           /\ ~hasFocus' /\ ~isEditing'
           /\ (isEditing /\ parseFloat(editText) # <<>>) =>
                  /\ currentValue' = ClampedTo(parseFloat(editText)[1], minValue, maxValue)
                  /\ Len(out0') = IF activeState # 0 THEN 1 ELSE 0]_vars

\* C13: a left-click inside the widget, its onclick and globalMouse delivered
\* in either order, leaves the widget focused, and the check scheduled for it
\* keeps the focus and commits nothing: the edit session, the buffer and
\* currentValue stay, nothing is emitted or notified.
C13_InsideClickKeepsFocus ==
    [][/\ lastOp'.op = "clickInside" => (hasFocus' /\ isEditing' = isEditing)
       /\ (lastOp'.op = "focusCheck" /\ lastOp'.args = InsideClick) =>
              /\ hasFocus'
              /\ UNCHANGED <<isEditing, editText, currentValue>>
              /\ out0' = <<>> /\ notified' = 0]_vars

\* C13 witness: the check of an inside click has run on a focused widget with
\* "4" typed, and the session is still open
C13_Witness ==
    /\ lastOp.op = "focusCheck" /\ lastOp.args = InsideClick
    /\ hasFocus /\ isEditing /\ editText = <<52>>

ArrowPressed == lastOp'.op = "keyInput" /\ lastOp'.args[1] \in {30, 31} /\ hasFocus

\* the value an arrow key steps from: the committed buffer of an open edit
\* session that parses, else currentValue
ArrowBase ==
    IF isEditing /\ parseFloat(editText) # <<>>
    THEN ClampedTo(parseFloat(editText)[1], minValue, maxValue)
    ELSE currentValue

\* C16: an arrow key on a focused widget closes any open edit session
\* (committing it) and sets currentValue to clamp(value + 0.5) for up (30) and
\* clamp(value - 0.5) for down (31); up never decreases the value, down never
\* increases it.
C16_ArrowKeySteps ==
    [][ArrowPressed =>
           /\ ~isEditing'
           /\ currentValue' =
                  ClampedTo(ArrowBase + (IF lastOp'.args[1] = 30 THEN 1 ELSE 0 - 1)
                                            * ((5 * Scale) \div 10),
                            minValue', maxValue')
           /\ lastOp'.args[1] = 30 => currentValue' >= ArrowBase
           /\ lastOp'.args[1] = 31 => currentValue' <= ArrowBase]_vars

EscapePressed ==
    lastOp'.op = "keyInput" /\ lastOp'.args[1] = 27 /\ hasFocus /\ isEditing

BlinkTimerArmed(ts) == \E i \in 1..Len(ts) : ts[i].kind = "toggleCursor"

\* C17: Escape during an edit session closes it, cancels the blink timer and
\* empties the buffer; currentValue stays and outputValue is again the output
\* derived from it, as it was before the session's keystrokes; nothing is
\* emitted or notified.
C17_EscapeCancels ==
    [][EscapePressed =>
           /\ ~isEditing' /\ ~BlinkTimerArmed(tasks') /\ editText' = <<>>
           /\ currentValue' = currentValue
           /\ outputValue' = DerivedOutput(StoreUnitStyle, currentValue)
           /\ out0' = <<>> /\ notified' = 0]_vars

\* C17 witness: Escape on a focused decibel widget at 0 whose cursor had blinked
\* off: no session, no buffer, no timer, the decibel output of 0 back in place
C17_Witness ==
    /\ lastOp = [op |-> "keyInput", args |-> <<27>>] /\ hasFocus /\ ~isEditing
    /\ editText = <<>> /\ ~showCursor /\ ~BlinkTimerArmed(tasks)
    /\ StoreUnitStyle = 4 /\ currentValue = 0
    /\ outputValue = DerivedOutput(4, 0)

\* the justification a word names, whatever its case ("" for any other word)
JustificationNamed(word) ==
    CASE word \in {"left", "LEFT"} -> "left"
      [] word \in {"right", "Right"} -> "right"
      [] word \in {"centre", "Centre", "center", "Center"} -> "centre"
      [] OTHER -> ""

RecognisedAt(words) == {i \in 1..Len(words) : JustificationNamed(words[i]) # ""}

\* C18: after the justification is parsed from jsarguments (at construction, on
\* a jsarguments change, on loadbang) textJustification is the justification
\* named by the one recognised word, and "centre" when no word or more than one
\* word is recognised; other words do not count.
C18_JustificationParsed ==
    lastOp.op \in {"new", "jsarguments", "loadbang"} =>
        LET at == RecognisedAt(attrs.jsarguments)
        IN IF Cardinality(at) = 1
           THEN \A i \in at : textJustification = JustificationNamed(attrs.jsarguments[i])
           ELSE textJustification = "centre"

\* C18 witness: the arguments were changed to "bold LEFT", which gives left
C18_Witness ==
    /\ lastOp.op = "jsarguments" /\ attrs.jsarguments = <<"bold", "LEFT">>
    /\ textJustification = "left"

\* C19: save() records currentValue, minValue, maxValue, initialValue, the
\* justification and activeState as they are, and a load puts exactly the
\* recorded values back before any restore Task has fired (all of them are still
\* pending) and without sending anything to outlet 0.
C19_SaveRestoreRoundTrip ==
    [][/\ lastOp'.op = "save" =>
              /\ embedded'.value = currentValue /\ embedded'.min = minValue
              /\ embedded'.max = maxValue /\ embedded'.initial = initialValue
              /\ embedded'.justification = textJustification
              /\ embedded'.active = activeState
       /\ lastOp'.op = "load" =>
              /\ currentValue' = embedded.value /\ minValue' = embedded.min
              /\ maxValue' = embedded.max /\ initialValue' = embedded.initial
              /\ textJustification' = embedded.justification
              /\ activeState' = embedded.active
              /\ out0' = <<>>
              /\ Len(tasks') >= 5
              /\ \A i \in 1..Len(tasks') : tasks'[i].kind \in RestoreKinds]_vars

\* C19 witness: a load into a store the host had lost has put back a value of
\* 10 in [0, 10], the initial value 50, the left justification and the inactive
\* state, with the six restore Tasks pending
C19_Witness ==
    /\ lastOp.op = "load" /\ attrs = DefaultStore
    /\ currentValue = V(10) /\ minValue = 0 /\ maxValue = V(10)
    /\ initialValue = V(50) /\ textJustification = "left" /\ activeState = 0
    /\ Len(tasks) = 6

\* the delay of each restore Task
RestoreDelay ==
    [restoreParameterType |-> 10, restoreInitialEnable |-> 20,
     restoreInitialValue |-> 30, restoreParameterRange |-> 40,
     restoreUnitStyle |-> 50, restoreParameterInvisible |-> 60]

\* the store's value of the attribute a restore Task writes, as the Task holds it
WrittenBy(kind, store) ==
    CASE kind = "restoreParameterType" -> store.ptype
      [] kind = "restoreInitialEnable" -> <<store.initial_enable>>
      [] kind = "restoreInitialValue" -> store.initial
      [] kind = "restoreParameterRange" -> store.range
      [] kind = "restoreUnitStyle" -> store.unitstyle
      [] kind = "restoreParameterInvisible" -> <<store.invisible>>

\* C20: a load writes no attribute itself: the store is as the host supplied it
\* and each write waits in a Task of its own, with delay 10 (parameter type), 20
\* (initial-enable), 30 (initial value), 40 (range), 50 (unit style) or 60
\* (visibility); a restore Task fires only when no write of an earlier rank is
\* pending, and then writes its attribute.
C20_RestoreWritesDeferredInOrder ==
    [][/\ lastOp'.op = "load" =>
              /\ attrs' \in {attrs, DefaultStore}
              /\ \A i \in 1..Len(tasks') :
                     /\ tasks'[i].delay = RestoreDelay[tasks'[i].kind]
                     /\ \A j \in 1..Len(tasks') : tasks'[j].kind = tasks'[i].kind => j = i
       /\ lastOp'.op \in RestoreKinds =>
              /\ \A i \in 1..Len(tasks') :
                     tasks'[i].kind \in RestoreKinds =>
                         RestoreDelay[tasks'[i].kind] > RestoreDelay[lastOp'.op]
              /\ (lastOp'.op # "restoreInitialValue" \/ lastOp'.args # <<>>) =>
                     WrittenBy(lastOp'.op, attrs') = lastOp'.args]_vars

\* C20 witness: after a load into a store the host had lost, the last restore
\* Task (visibility) has fired and the store holds the saved range, unit style,
\* initial value and visibility again
C20_Witness ==
    /\ lastOp.op = "restoreParameterInvisible" /\ tasks = <<>>
    /\ attrs.jsarguments = <<>> /\ attrs.range = <<V(0), V(10)>>
    /\ attrs.unitstyle = <<4>> /\ attrs.initial = <<V(50)>>
    /\ attrs.initial_enable = 1 /\ attrs.invisible = 1

\* C21: after onresize(width, height) the box is 15 high and at least 25 wide:
\* a conforming size is kept, and one that is not is rewritten to height 15 and
\* to width 25 where it was narrower.
C21_ResizeEnforcesSize ==
    lastOp.op = "onresize" =>
        /\ rect[2] = 15
        /\ rect[1] = IF lastOp.args[1] < 25 THEN 25 ELSE lastOp.args[1]

\* the initial value a refresh reads: the store's when initial-enable is on
\* (the cached one when the store holds none), 0 when it is off
InitialRead ==
    IF attrs.initial_enable # 0
    THEN IF attrs.initial # <<>> THEN attrs.initial[1] ELSE initialValue
    ELSE 0

\* C22: ondblclick re-reads the initial value and sets currentValue to it (the
\* store's initial value when initial-enable is on, 0 when it is off), then
\* emits the output derived from it once if the widget is active.
C22_ResetToInitial ==
    [][lastOp'.op = "ondblclick" =>
           /\ initialValue' = InitialRead /\ currentValue' = InitialRead
           /\ out0' = IF activeState # 0
                      THEN <<DerivedOutput(StoreUnitStyle, currentValue')>>
                      ELSE <<>>]_vars

\* C23: a refresh that reads a missing range, or one of fewer than 2 elements,
\* leaves minValue, maxValue and currentValue as they were and emits nothing (the
\* bounds stay whichever handler did the refresh); one that reads no initial
\* value while initial-enable is on leaves initialValue as it was.
C23_MalformedConfigIsNoOp ==
    [][/\ Len(attrs'.range) < 2 => minValue' = minValue /\ maxValue' = maxValue
       /\ (lastOp'.op = "_parameter_range" /\ Len(attrs'.range) < 2) =>
              currentValue' = currentValue /\ out0' = <<>> /\ notified' = 0
       /\ (attrs'.initial_enable # 0 /\ attrs'.initial = <<>>) =>
              initialValue' = initialValue]_vars

\* C23 witness: the range [0, 10] was replaced by the one-element range <<5>>
\* under a value of 0: the bounds are still 0 and 10 and the value is still 0
C23_Witness ==
    /\ lastOp.op = "_parameter_range" /\ attrs.range = <<V(5)>>
    /\ minValue = V(0) /\ maxValue = V(10) /\ currentValue = V(0) /\ out0 = <<>>

\* a buffer of digits, '.' and '-' that is no number: after an optional leading
\* '-' there is neither a digit nor a '.' followed by a digit
Unparseable(chars) ==
    LET body == IF chars # <<>> /\ chars[1] = 45 THEN Tail(chars) ELSE chars
    IN ~(/\ body # <<>>
         /\ \/ IsDigit(body[1])
            \/ body[1] = 46 /\ Len(body) >= 2 /\ IsDigit(body[2]))

EnterPressed == lastOp'.op = "keyInput" /\ lastOp'.args[1] \in {13, 3}

\* C24: Enter on an open edit session whose buffer is no number leaves
\* currentValue as it was, emits nothing and notifies nobody, and the session is
\* closed with the blink timer cancelled.
C24_UnparseableCommit ==
    [][(EnterPressed /\ hasFocus /\ isEditing /\ Unparseable(editText)) =>
           /\ currentValue' = currentValue /\ out0' = <<>> /\ notified' = 0
           /\ ~isEditing' /\ ~BlinkTimerArmed(tasks')]_vars

\* C24 witness: Enter closed a session whose buffer was "-"; the value is the one
\* the click that gave focus left
C24_Witness ==
    /\ lastOp = [op |-> "keyInput", args |-> <<13>>] /\ editText = <<45>>
    /\ ~isEditing /\ ~BlinkTimerArmed(tasks) /\ currentValue = V(0)
    /\ out0 = <<>> /\ notified = 0

\* the script's globals and the host's objects: everything but the record of
\* what the last handler did
ProgramState ==
    <<currentValue, minValue, maxValue, initialValue, textJustification, activeState,
      outputValue, displayText, isDragging, dragStartY, lastDragY, cursorOrigin,
      isEditing, editText, hasFocus, showCursor, clickedInside,
      attrs, tasks, cursorHidden, cursorPos, embedded, rect>>

\* C25: getvalueof() returns currentValue, not the converted outputValue, and
\* changes nothing; called right after setvalueof(x) it returns
\* clamp(x, minValue, maxValue).
C25_GetValueOf ==
    [][lastOp'.op = "getvalueof" =>
           /\ returned' = <<Num(currentValue)>> /\ out0' = <<>> /\ notified' = 0
           /\ UNCHANGED ProgramState
           /\ lastOp.op = "setvalueof" =>
                  returned' = <<Num(ClampedTo(lastOp.args[1], minValue, maxValue))>>]_vars

\* C25 witness: on a decibel widget with range [0, 10], getvalueof() right after
\* setvalueof(50) returned 10, where outputValue is 10^(10/20)
C25_Witness ==
    /\ lastOp.op = "getvalueof" /\ returned = <<Num(V(10))>>
    /\ StoreUnitStyle = 4 /\ attrs.range = <<V(0), V(10)>>
    /\ outputValue = DerivedOutput(4, V(10)) /\ outputValue # Num(V(10))

\* C26: whatever a handler sent last to outlet 0 is the output derived from
\* currentValue and the unit style: 0 at or under -80 dB and the amplitude
\* otherwise in decibel style, currentValue in the other styles; edit commits
\* and the set-value and range refreshes of an open edit session included.
C26_EmissionIsDerived ==
    out0 # <<>> => out0[Len(out0)] = DerivedOutput(StoreUnitStyle, currentValue)

\* C27: in every reachable state the drag session and the edit session are not
\* both active: not (isDragging and isEditing).
C27_OneSessionAtATime == ~(isDragging /\ isEditing)

\* C28: hasFocus goes from true to false only in the focus check that a global
\* left-click scheduled: no other handler (idle-out, drag, key, set-value, reset,
\* active, attribute change, save, restore) clears it.
C28_FocusLostOnlyInCheck ==
    [][(hasFocus /\ ~hasFocus') => lastOp'.op = "focusCheck"]_vars

\* C28 witness: the check of a click elsewhere has taken the focus of a widget
\* whose edit session held "0", and committed it
C28_Witness ==
    /\ lastOp = [op |-> "focusCheck", args |-> OutsideClick] /\ ~hasFocus
    /\ ~isEditing /\ editText = <<48>> /\ currentValue = V(0) /\ notified = 1

\* C29: an ondrag of a drag received while lastDragY is over 30 in magnitude
\* moves the system cursor to cursorOrigin and sets lastDragY to the event's y,
\* and leaves currentValue, emits nothing and notifies nobody; one received while
\* lastDragY is within 30 sets currentValue to
\* clamp(currentValue + (lastDragY - y) * step, minValue, maxValue).
C29_BoundaryRecovery ==
    [][DragMoved =>
           IF lastDragY > 30 \/ lastDragY < 0 - 30
           THEN /\ cursorPos' = cursorOrigin /\ lastDragY' = lastOp'.args[1]
                /\ currentValue' = currentValue /\ out0' = <<>> /\ notified' = 0
           ELSE currentValue' = DraggedValue /\ lastDragY' = lastOp'.args[1]]_vars

\* C29 witness: a drag begun at y = 31 has come to y = 0 with the value the
\* widget started with: the event that left 31 re-centred the cursor on the
\* polled position and took no step
C29_Witness ==
    /\ lastOp = [op |-> "ondrag", args |-> <<0, 1, 0>>] /\ isDragging
    /\ dragStartY = 31 /\ lastDragY = 0 /\ cursorPos = <<7, 7>> /\ cursorHidden
    /\ attrs.range = <<>> /\ currentValue = V(0 - 10) /\ moves = 0

\* C30: an ondrag of a drag whose clamped proposed value is currentValue emits
\* nothing, notifies nobody and leaves currentValue and outputValue as they
\* were; lastDragY becomes the event's y all the same.
C30_UnchangedDragIsSilent ==
    [][(DragMoved /\ DraggedValue = currentValue) =>
           /\ out0' = <<>> /\ notified' = 0
           /\ UNCHANGED <<currentValue, outputValue>>
           /\ lastDragY' = lastOp'.args[1]]_vars

\* C30 witness: with the value pinned at the lower bound 0 of the range [0, 10],
\* a drag from y = 0 down to y = 10 left it there and sent nothing
C30_Witness ==
    /\ lastOp = [op |-> "ondrag", args |-> <<10, 1, 0>>] /\ isDragging
    /\ dragStartY = 0 /\ lastDragY = 10 /\ attrs.range = <<V(0), V(10)>>
    /\ currentValue = V(0) /\ minValue = V(0) /\ out0 = <<>> /\ notified = 0
    /\ moves = 0

\* C31: the blink timer is pending exactly while an edit session is open (it is
\* scheduled when typing opens the session, commit and cancel cancel it); a
\* firing during a session toggles showCursor and schedules the next one, a
\* firing outside a session does neither.
C31_BlinkTimerWhileEditing ==
    /\ [](isEditing <=> BlinkTimerArmed(tasks))
    /\ [][lastOp'.op = "toggleCursor" =>
              IF isEditing
              THEN showCursor' = ~showCursor /\ BlinkTimerArmed(tasks')
              ELSE showCursor' = showCursor /\ ~BlinkTimerArmed(tasks')]_vars

\* C31 witness: the timer has fired during a session that holds "4": the cursor
\* is off and the next firing is pending
C31_Witness ==
    /\ lastOp.op = "toggleCursor" /\ isEditing /\ editText = <<52>>
    /\ ~showCursor /\ BlinkTimerArmed(tasks)

\* C32: in every reachable state an open edit session belongs to a focused
\* widget: isEditing implies hasFocus.
C32_EditingImpliesFocus == isEditing => hasFocus

\* C32 witness: a left-click elsewhere has reached a focused widget whose edit
\* session holds "4"; its focus check is pending
C32_Witness ==
    /\ lastOp.op = "clickOutside" /\ isEditing /\ hasFocus /\ editText = <<52>>
    /\ \E i \in 1..Len(tasks) :
           tasks[i].kind = "focusCheck" /\ tasks[i].args = OutsideClick

\* the pending Tasks of s run to the last, in the order of their delays (the
\* earlier scheduled first among equal delays)
RECURSIVE Settled(_)
Settled(s) ==
    IF s.tasks = <<>> THEN s
    ELSE LET i == CHOOSE i \in 1..Len(s.tasks) :
                      /\ \A j \in 1..Len(s.tasks) : s.tasks[j].delay >= s.tasks[i].delay
                      /\ \A j \in 1..(i - 1) : s.tasks[j].delay > s.tasks[i].delay
             rest == [j \in 1..(Len(s.tasks) - 1) |->
                         IF j < i THEN s.tasks[j] ELSE s.tasks[j + 1]]
         IN Settled(taskFunction([s EXCEPT !.tasks = rest], s.tasks[i]))

\* the script's globals and the attribute store of s
Internal(s) ==
    <<s.currentValue, s.minValue, s.maxValue, s.initialValue, s.textJustification,
      s.activeState, s.outputValue, s.displayText, s.isEditing, s.editText,
      s.hasFocus, s.isDragging, s.attrs>>

\* the store holds what save() recorded
StoreHoldsSaved ==
    /\ attrs.ptype = embedded.ptype /\ attrs.initial_enable = embedded.initial_enable
    /\ attrs.initial = embedded.initialAttr /\ attrs.unitstyle = embedded.unitstyle
    /\ attrs.invisible = embedded.invisible
    /\ attrs.range = embedded.range

\* C33: after a load the restore writes all fire in the end, and the store then
\* holds the saved parameter type, initial-enable, initial value, range, unit
\* style and visibility; the restore messages replayed once more, and their
\* writes run, leave the store and the script's globals as the first replay left
\* them.
C33_RestoreCompletesIdempotent ==
    /\ RestorePending(tasks) ~> (~RestorePending(tasks) /\ StoreHoldsSaved)
    /\ [](embedded.saved =>
             LET once == Settled(replay(Cur))
             IN Internal(Settled(replay(once))) = Internal(once))

\* C33 witness: the last restore write of a load into a store the host had lost
\* has run: the store is the saved one again, decibel style and range [0, 10]
C33_Witness ==
    /\ loads = 1 /\ lastOp.op = "restoreParameterInvisible" /\ tasks = <<>>
    /\ StoreHoldsSaved /\ attrs # DefaultStore
    /\ attrs.unitstyle = <<4>> /\ attrs.range = <<V(0), V(10)>> /\ attrs.invisible = 1

\* C34: in every reachable state minValue <= maxValue, whatever range the
\* attribute store or a restored record supplies.
C34_BoundsOrdered == minValue <= maxValue

\* C35: while a drag is in progress the stored cursor origin stays the position
\* reported for the pointer-down that started it, which is where the cursor is
\* put back at pointer-up and at a re-centring: no global pointer event of the
\* drag changes cursorOrigin.
C35_OriginFixedDuringDrag ==
    [][/\ (isDragging /\ isDragging' /\ lastOp'.op # "clickInside") =>
              cursorOrigin' = cursorOrigin
       /\ (isDragging /\ lastOp'.op = "ondrag"
             /\ (~isDragging' \/ lastDragY > 30 \/ lastDragY < 0 - 30)) =>
              cursorPos' = cursorOrigin]_vars

\* the value an arrow key steps from once the range is refreshed
ArrowRefreshed ==
    IF Len(attrs.range) >= 2
    THEN ClampedTo(ArrowBase, attrs.range[1], attrs.range[2])
    ELSE ArrowBase

CommitParses == hasFocus /\ isEditing /\ parseFloat(editText) # <<>>

C37_CursorShownWhenIdle ==
    /\ [](~isDragging => ~cursorHidden)
    /\ [][/\ (cursorHidden' /\ ~cursorHidden) => (lastOp'.op = "ondrag" /\ isDragging)
          /\ (isDragging /\ ~isDragging') => ~cursorHidden']_vars

\* C37 witness: the pointer has left the widget during a drag whose moves had
\* hidden the cursor: the drag is over and the cursor is shown
C37_Witness ==
    /\ lastOp.op = "onidleout" /\ ~isDragging /\ ~cursorHidden /\ lastDragY = 40
    /\ moves = 1

\* C38: one msg_float to an active widget sends exactly one value to outlet 0,
\* the output derived from the clamped new value, also when the range of the
\* store is not the one the widget last refreshed.
C38_OneEmissionPerMessage ==
    [][(lastOp'.op = "msg_float" /\ activeState # 0) =>
           out0' = <<DerivedOutput(StoreUnitStyle, currentValue')>>]_vars

\* C39: keyInput of any code on a widget without focus changes nothing: no edit
\* session opens, currentValue and everything else stay, and nothing is emitted
\* or notified.
C39_KeysIgnoredWithoutFocus ==
    [][(lastOp'.op = "keyInput" /\ ~hasFocus) =>
           /\ UNCHANGED ProgramState
           /\ out0' = <<>> /\ notified' = 0 /\ out1' = 0]_vars

\* C39 witness: a widget that lost focus with "4" committed has been sent the
\* up arrow: the value is still 4 and no session is open
C39_Witness ==
    /\ lastOp = [op |-> "keyInput", args |-> <<30>>] /\ ~hasFocus /\ ~isEditing
    /\ editText = <<52>> /\ currentValue = V(4) /\ notified = 0 /\ moves = 0

====
